---- MODULE Spec2Model ----
(***************************************************************************)
(* poll-widget: one <poll-widget> element (src/components/PollWidget.js),  *)
(* its relative-time directive (src/lib/time-ago.js), the browser's timer  *)
(* table and the requests it has in flight.                                *)
(*                                                                         *)
(* JavaScript runs one task at a time: every action below is one task (an  *)
(* event handler, a timer callback, a lifecycle callback) or one promise   *)
(* continuation, from its start to its first await.  Lit's batched update  *)
(* (render + updated) is a microtask: it runs before the next task, which  *)
(* is what the guard Idle states.                                          *)
(***************************************************************************)
EXTENDS Integers, Sequences, FiniteSets, TLC

\* ------------------------------------------------------------------ bounds
\* requests (read and vote together) issued over one run
MaxRequests == 3
\* the wall clock runs from 0 to MaxTime
MaxTime == 1
\* option lists of the bar-width specification: up to MaxOptions options, each
\* with 0..MaxVotes votes
MaxOptions == 3
MaxVotes == 3
\* votes the example backend accepts over one run
MaxPatches == 4

\* --------------------------------------------------------------- constants
\* the scale of a bar: (votes / largest) * 90
BarScale == 90

\* `undefined` in a number-valued field: the timer handle before setInterval
\* and after delete, the directive's time before its first update
Unset == -1

\* Response bodies of the read and write endpoints: {question, options}.
Payloads ==
    { [question |-> "Q",
       options  |-> << [id |-> 1, text |-> "A", votes |-> 2],
                       [id |-> 2, text |-> "B", votes |-> 8] >>],
      [question |-> "Q",
       options  |-> << [id |-> 1, text |-> "A", votes |-> 2],
                       [id |-> 2, text |-> "B", votes |-> 9] >>],
      [question |-> "Q0",
       options  |-> << [id |-> 1, text |-> "A", votes |-> 0],
                       [id |-> 2, text |-> "B", votes |-> 0] >>] }

\* server-example/app.js: let votes = [...]
InitialVotes ==
    << [id |-> 1, text |-> "Lit",     votes |-> 500],
       [id |-> 2, text |-> "React",   votes |-> 1000],
       [id |-> 3, text |-> "Angular", votes |-> 750] >>

\* constructor: this.question, this.options
DefaultQuestion == "What is your favorite JS View library?"

DefaultOptions ==
    << [id |-> 1, text |-> "Lit"],
       [id |-> 2, text |-> "React"],
       [id |-> 3, text |-> "Angular"] >>

VARIABLES
    \* PollWidget fields
    _showResults,       \* the visibility flag
    _updateTime,        \* the last-update timestamp
    question,
    options,
    timeAgo,            \* the timeAgo property (configuration)
    _intervalTimer,     \* handle of the refresh timer, or Unset
    \* the element and Lit's update cycle
    connected,          \* the last lifecycle callback was connectedCallback
    updatingEnabled,    \* enableUpdating() has run (first connectedCallback)
    isUpdatePending,    \* an update is requested and has not run yet
    changedProperties,  \* names of the properties changed since the last update
    hasUpdated,         \* the first update has run: the template is rendered
    partConnected,      \* isConnected of the rendered root part (and its directives)
    dom,                \* what render() last produced
    animations,         \* target widths of the last bar animation (<<>>: none yet)
    \* TimeAgoDirective fields
    dirTimer,           \* TRUE iff this.timer holds a live one-second interval
    dirTime,            \* this.time
    labelValue,         \* the elapsed time the label shows, or Unset
    \* the environment
    timers,             \* live refresh interval timers (setInterval handles)
    inflight,           \* requests issued and not settled
    nextSeq,            \* sequence number of the next request issued
    now,                \* the wall clock
    \* history
    event,              \* the handler that ran last, and what it did: the kind of
                        \* its request, "armed"/"kept" for the interval,
                        \* "animate" for an update that animated the bars
    votesCast,          \* how many times castVote has been started
    lastResult,         \* the body of the response applied last (<<>>: none yet)
    resolvedLog,        \* the two requests whose responses were applied last
                        \* (sequence number, kind, option id voted for)
    \* the example backend (server-example/app.js)
    votes,              \* its in-memory option list
    reply,              \* the response it sent last
    srvEvent            \* the request it handled last

vars == << _showResults, _updateTime, question, options, timeAgo, _intervalTimer,
           connected, updatingEnabled, isUpdatePending, changedProperties,
           hasUpdated, partConnected, dom, animations,
           dirTimer, dirTime, labelValue,
           timers, inflight, nextSeq, now, event, votesCast,
           lastResult, resolvedLog, votes, reply, srvEvent >>

\* the widget's own fields
widgetVars == << _showResults, _updateTime, question, options, timeAgo, _intervalTimer >>
\* Lit's update cycle and the rendered tree
litVars == << updatingEnabled, isUpdatePending, changedProperties, hasUpdated,
              partConnected, dom, animations >>
\* the directive
dirVars == << dirTimer, dirTime, labelValue >>
\* the record of the responses applied
histVars == << lastResult, resolvedLog >>
\* the example backend
srvVars == << votes, reply, srvEvent >>
\* everything of the widget and its environment
clientVars == << widgetVars, connected, litVars, dirVars, timers, inflight, nextSeq,
                now, event, votesCast, histVars >>

\* ----------------------------------------------------------------- helpers
OptionIds(opts) == { opts[i].id : i \in DOMAIN opts }

\* timeago.js format(time): the elapsed time between `time` and now
format(time) == now - time

\* setInterval returns a handle no live timer has
NewTimerId == CHOOSE i \in 1..(Cardinality(timers) + 1) : i \notin timers

\* fetch(url, ...): a request in flight, waiting for its response
NewRequest(kind, id) ==
    [seq |-> nextSeq, kind |-> kind, id |-> id]

\* the last two entries of a log
LastTwo(log) == IF Len(log) > 2 THEN Tail(log) ELSE log

\* no Lit update is waiting to run: the microtask queue is empty, so the next
\* task (an event, a timer, a response) may start
Idle == ~(isUpdatePending /\ updatingEnabled)

\* the request update Lit makes when a reactive property is assigned
requestUpdate(names) ==
    /\ isUpdatePending' = TRUE
    /\ changedProperties' = changedProperties \cup names

\* -------------------------------------------------------------------- Init
\* constructor (PollWidget.js 146-158); nothing is rendered, no timer runs
Init ==
    /\ _showResults = FALSE
    /\ _updateTime = 0
    /\ question = DefaultQuestion
    /\ options = DefaultOptions
    /\ timeAgo \in BOOLEAN
    /\ _intervalTimer = Unset
    /\ connected = FALSE
    /\ updatingEnabled = FALSE
    /\ isUpdatePending = TRUE
    /\ changedProperties = {"_showResults", "_updateTime", "question", "options"}
    /\ hasUpdated = FALSE
    /\ partConnected = FALSE
    /\ dom = [cls |-> "none", question |-> "", options |-> <<>>, label |-> FALSE]
    /\ animations = <<>>
    /\ dirTimer = FALSE
    /\ dirTime = Unset
    /\ labelValue = Unset
    /\ timers = {}
    /\ inflight = {}
    /\ nextSeq = 1
    /\ now = 0
    /\ event = [name |-> "constructor", kind |-> "none"]
    /\ votesCast = 0
    /\ lastResult = <<>>
    /\ resolvedLog = <<>>
    /\ votes = InitialVotes
    /\ reply = [status |-> 0]
    /\ srvEvent = [method |-> "none", id |-> ""]

\* ------------------------------------------------------- refresh interval
\* setupPollUpdater without its guard: every call arms another interval
setupPollUpdater_noGuard ==
    /\ _intervalTimer' = NewTimerId
    /\ timers' = timers \cup {NewTimerId}

\* setupPollUpdater: arm the interval unless the handle is already set
setupPollUpdater ==
    IF _intervalTimer = Unset
    THEN /\ _intervalTimer' = NewTimerId
         /\ timers' = timers \cup {NewTimerId}
    ELSE UNCHANGED << _intervalTimer, timers >>

\* teardownPollUpdater without clearInterval: the handle is forgotten, the
\* interval lives on
teardownPollUpdater_keepsInterval ==
    /\ timers' = timers
    /\ _intervalTimer' = Unset

\* teardownPollUpdater: clearInterval(this._intervalTimer); delete the handle
teardownPollUpdater ==
    /\ timers' = timers \ {_intervalTimer}
    /\ _intervalTimer' = Unset

\* updatePollResults up to its first await: fetch(this.requestAPI) is called
updatePollResults ==
    /\ inflight' = inflight \cup {NewRequest("refresh", Unset)}
    /\ nextSeq' = nextSeq + 1

\* castVote(id) up to its first await: fetch(this.voteAPI, PATCH {id}) is called
castVote(id) ==
    /\ inflight' = inflight \cup {NewRequest("vote", id)}
    /\ nextSeq' = nextSeq + 1
    /\ votesCast' = votesCast + 1

\* updateView taking the question of the response applied before this one
updateView_staleQuestion(result) ==
    /\ question' = IF lastResult = <<>> THEN result.question
                   ELSE lastResult[1].question
    /\ options' = result.options
    /\ _updateTime' = now
    /\ requestUpdate({"question", "options", "_updateTime"})

\* updateView merging instead of replacing: the question is kept
updateView_keepsQuestion(result) ==
    /\ question' = question
    /\ options' = result.options
    /\ _updateTime' = now
    /\ requestUpdate({"options", "_updateTime"})

\* updateView(result): replace question and options, stamp the time
updateView(result) ==
    /\ question' = result.question
    /\ options' = result.options
    /\ _updateTime' = now
    /\ requestUpdate({"question", "options", "_updateTime"})

\* ------------------------------------------------------ lifecycle callbacks
\* connectedCallback: super.connectedCallback() (Lit enables updating and
\* marks the rendered root part connected), then an immediate read request,
\* then the interval
ConnectedCallback ==
    /\ nextSeq <= MaxRequests
    /\ updatingEnabled' = TRUE
    /\ partConnected' = IF hasUpdated THEN TRUE ELSE partConnected
    /\ updatePollResults
    /\ setupPollUpdater
    /\ connected' = TRUE
    /\ event' = [name |-> "connectedCallback",
                 kind |-> IF _intervalTimer = Unset THEN "armed" ELSE "kept"]
    /\ UNCHANGED << _showResults, _updateTime, question, options, timeAgo,
                    isUpdatePending, changedProperties, hasUpdated, dom, animations,
                    dirTimer, dirTime, labelValue, now, votesCast, histVars >>
    /\ UNCHANGED srvVars

\* disconnectedCallback that also hides the results again
DisconnectedCallback_resetsFlag ==
    /\ teardownPollUpdater
    /\ connected' = FALSE
    /\ _showResults' = FALSE
    /\ event' = [name |-> "disconnectedCallback", kind |-> "none"]
    /\ UNCHANGED << _updateTime, question, options, timeAgo,
                    litVars, dirVars, inflight, nextSeq, now, votesCast, histVars >>
    /\ UNCHANGED srvVars

\* disconnectedCallback: only teardownPollUpdater(); super.disconnectedCallback()
\* is not called, so Lit is not told: the root part stays connected and no
\* directive's disconnected() runs
DisconnectedCallback ==
    /\ teardownPollUpdater
    /\ connected' = FALSE
    /\ event' = [name |-> "disconnectedCallback", kind |-> "none"]
    /\ UNCHANGED << _showResults, _updateTime, question, options, timeAgo,
                    litVars, dirVars, inflight, nextSeq, now, votesCast, histVars >>
    /\ UNCHANGED srvVars

\* the interval's callback skipping its read while a request is in flight
TimerTick_skipsWhenBusy(t) ==
    /\ Idle
    /\ t \in timers
    /\ inflight = {}
    /\ nextSeq <= MaxRequests
    /\ updatePollResults
    /\ event' = [name |-> "timerTick", kind |-> "refresh"]
    /\ UNCHANGED << widgetVars, connected, litVars, dirVars, timers, now, votesCast,
                    histVars >>
    /\ UNCHANGED srvVars

\* the interval fires: updatePollResults()
TimerTick(t) ==
    /\ Idle
    /\ t \in timers
    /\ nextSeq <= MaxRequests
    /\ updatePollResults
    /\ event' = [name |-> "timerTick", kind |-> "refresh"]
    /\ UNCHANGED << widgetVars, connected, litVars, dirVars, timers, now, votesCast, histVars >>
    /\ UNCHANGED srvVars

\* ------------------------------------------------------------------- click
\* handleOptionClick that does not set the flag before it awaits castVote
HandleOptionClick_lateFlag(id) ==
    /\ Idle
    /\ hasUpdated
    /\ id \in OptionIds(dom.options)
    /\ IF _showResults
       THEN /\ event' = [name |-> "click", kind |-> "none"]
            /\ UNCHANGED << inflight, nextSeq, votesCast >>
       ELSE /\ nextSeq <= MaxRequests
            /\ castVote(id)
            /\ event' = [name |-> "click", kind |-> "vote"]
    /\ UNCHANGED << widgetVars, litVars, connected, dirVars, timers, now, histVars >>
    /\ UNCHANGED srvVars

\* handleOptionClick on the rendered option `id`: nothing once revealed;
\* otherwise reveal, then castVote(id) (which awaits)
HandleOptionClick(id) ==
    /\ Idle
    /\ hasUpdated
    /\ id \in OptionIds(dom.options)
    /\ IF _showResults
       THEN /\ event' = [name |-> "click", kind |-> "none"]
            /\ UNCHANGED << widgetVars, litVars, inflight, nextSeq, votesCast >>
       ELSE /\ nextSeq <= MaxRequests
            /\ _showResults' = TRUE
            /\ requestUpdate({"_showResults"})
            /\ castVote(id)
            /\ event' = [name |-> "click", kind |-> "vote"]
            /\ UNCHANGED << _updateTime, question, options, timeAgo, _intervalTimer,
                            updatingEnabled, hasUpdated, partConnected, dom, animations >>
    /\ UNCHANGED << connected, dirVars, timers, now, histVars >>
    /\ UNCHANGED srvVars

\* --------------------------------------------------------------- responses
\* An async function that has called fetch() touches no state between its two
\* awaits (fetch, then response.json()), so a request has one pending stage:
\* it ends with both awaits resolved, or with either of them rejected.

\* a response applied only if no later-issued request was applied before it
ResponseResolves_dropsStale(r, result) ==
    /\ Idle
    /\ r \in inflight
    /\ inflight' = inflight \ {r}
    /\ IF resolvedLog # <<>> /\ r.seq < resolvedLog[Len(resolvedLog)].seq
       THEN UNCHANGED << question, options, _updateTime, isUpdatePending,
                         changedProperties >>
       ELSE updateView(result)
    /\ lastResult' = << result >>
    /\ resolvedLog' = LastTwo(Append(resolvedLog, [seq |-> r.seq, kind |-> r.kind, id |-> r.id]))
    /\ event' = [name |-> "responseResolved", kind |-> r.kind]
    /\ UNCHANGED << _showResults, timeAgo, _intervalTimer, connected, updatingEnabled,
                    hasUpdated, partConnected, dom, animations, dirVars, timers,
                    nextSeq, now, votesCast >>
    /\ UNCHANGED srvVars

\* `await fetch(...)` and `await response.json()` resolve: updateView(result)
ResponseResolves(r, result) ==
    /\ Idle
    /\ r \in inflight
    /\ inflight' = inflight \ {r}
    /\ updateView(result)
    /\ lastResult' = << result >>
    /\ resolvedLog' = LastTwo(Append(resolvedLog, [seq |-> r.seq, kind |-> r.kind, id |-> r.id]))
    /\ event' = [name |-> "responseResolved", kind |-> r.kind]
    /\ UNCHANGED << _showResults, timeAgo, _intervalTimer, connected, updatingEnabled,
                    hasUpdated, partConnected, dom, animations, dirVars, timers,
                    nextSeq, now, votesCast >>
    /\ UNCHANGED srvVars

\* a rejected fetch answered by issuing the request again
FetchRejects_retries(r) ==
    /\ Idle
    /\ r \in inflight
    /\ nextSeq <= MaxRequests
    /\ inflight' = (inflight \ {r}) \cup {NewRequest(r.kind, r.id)}
    /\ nextSeq' = nextSeq + 1
    /\ event' = [name |-> "fetchRejected", kind |-> r.kind]
    /\ UNCHANGED << widgetVars, connected, litVars, dirVars, timers, now, votesCast,
                    histVars >>
    /\ UNCHANGED srvVars

\* `await fetch(...)` rejects (network failure): the async function ends with
\* an unhandled rejection
FetchRejects(r) ==
    /\ Idle
    /\ r \in inflight
    /\ inflight' = inflight \ {r}
    /\ event' = [name |-> "fetchRejected", kind |-> r.kind]
    /\ UNCHANGED << widgetVars, connected, litVars, dirVars, timers, nextSeq, now,
                    votesCast, histVars >>
    /\ UNCHANGED srvVars

\* a failed vote answered by hiding the results again, so the user can retry
JsonRejects_resetsFlag(r) ==
    /\ Idle
    /\ r \in inflight
    /\ inflight' = inflight \ {r}
    /\ _showResults' = (_showResults /\ r.kind # "vote")
    /\ event' = [name |-> "jsonRejected", kind |-> r.kind]
    /\ UNCHANGED << _updateTime, question, options, timeAgo, _intervalTimer,
                    connected, litVars, dirVars, timers, nextSeq, now, votesCast,
                    histVars >>
    /\ UNCHANGED srvVars

\* `await response.json()` rejects (the body is not JSON): likewise
JsonRejects(r) ==
    /\ Idle
    /\ r \in inflight
    /\ inflight' = inflight \ {r}
    /\ event' = [name |-> "jsonRejected", kind |-> r.kind]
    /\ UNCHANGED << widgetVars, connected, litVars, dirVars, timers, nextSeq, now,
                    votesCast, histVars >>
    /\ UNCHANGED srvVars

\* ------------------------------------------------------------------ render
\* the votes summed instead of their maximum taken (a share of the total)
RECURSIVE SumVotes(_)
SumVotes(opts) ==
    IF opts = <<>> THEN 0 ELSE opts[1].votes + SumVotes(Tail(opts))

largetVote_sum(opts) == SumVotes(opts)

\* Math.max(...this.options.map(option => option.votes))
largetVote(opts) ==
    CHOOSE m \in { opts[i].votes : i \in DOMAIN opts } :
        \A i \in DOMAIN opts : opts[i].votes <= m

\* the widths scaled to 100 instead of 90
percentages_scale100(opts) ==
    [i \in DOMAIN opts |->
        [num |-> opts[i].votes * 100, den |-> largetVote(opts)]]

\* (option.votes / largetVote) * 90 as the fraction num/den; den = 0 is the
\* division 0/0, which JavaScript evaluates to NaN
percentages(opts) ==
    [i \in DOMAIN opts |->
        [num |-> opts[i].votes * BarScale, den |-> largetVote(opts)]]

\* render() showing the label before the reveal too
render_labelBeforeReveal ==
    [cls      |-> IF _showResults THEN "results" ELSE "hide-results",
     question |-> question,
     options  |-> options,
     label    |-> timeAgo]

\* render(): the section's class, the question, one row per option, and
\* timeAgoTemplate(): the label only if timeAgo and _showResults
render ==
    [cls      |-> IF _showResults THEN "results" ELSE "hide-results",
     question |-> question,
     options  |-> options,
     label    |-> timeAgo /\ _showResults]

\* updated() animating only the first time
updated_onceOnly ==
    IF "options" \in changedProperties /\ _showResults /\ animations = <<>>
    THEN /\ animations' = percentages(options)
         /\ event' = [name |-> "performUpdate", kind |-> "animate"]
    ELSE /\ UNCHANGED animations
         /\ event' = [name |-> "performUpdate", kind |-> "none"]

\* updated(changedProperties): animate every bar when the options changed and
\* the results are shown
updated ==
    IF "options" \in changedProperties /\ _showResults
    THEN /\ animations' = percentages(options)
         /\ event' = [name |-> "performUpdate", kind |-> "animate"]
    ELSE /\ UNCHANGED animations
         /\ event' = [name |-> "performUpdate", kind |-> "none"]

\* Lit's update: render(), commit the template (the timeAgo directive's
\* update(), or its disconnected() when the label is removed), then updated()
PerformUpdate ==
    /\ isUpdatePending
    /\ updatingEnabled
    /\ dom' = render
    /\ partConnected' = IF hasUpdated THEN partConnected ELSE connected
    /\ IF render.label
       THEN /\ dirTime' = _updateTime
            /\ dirTimer' = (dirTimer \/ partConnected')
            /\ labelValue' = format(_updateTime)
       ELSE /\ dirTimer' = FALSE
            /\ UNCHANGED << dirTime, labelValue >>
    /\ updated
    /\ hasUpdated' = TRUE
    /\ isUpdatePending' = FALSE
    /\ changedProperties' = {}
    /\ UNCHANGED << widgetVars, connected, updatingEnabled, timers, inflight, nextSeq,
                    now, votesCast, histVars >>
    /\ UNCHANGED srvVars

\* the directive's one-second interval fires: setValue(render(this.time))
LabelTick ==
    /\ Idle
    /\ dirTimer
    /\ labelValue' = format(dirTime)
    /\ event' = [name |-> "labelTick", kind |-> "none"]
    /\ UNCHANGED << widgetVars, connected, litVars, dirTimer, dirTime, timers,
                    inflight, nextSeq, now, votesCast, histVars >>
    /\ UNCHANGED srvVars

\* time passes
AdvanceClock ==
    /\ Idle
    /\ now < MaxTime
    /\ now' = now + 1
    /\ event' = [name |-> "advanceClock", kind |-> "none"]
    /\ UNCHANGED << widgetVars, connected, litVars, dirVars, timers, inflight,
                    nextSeq, votesCast, histVars >>
    /\ UNCHANGED srvVars

Next ==
    \/ ConnectedCallback
    \/ DisconnectedCallback
    \/ \E t \in timers : TimerTick(t)
    \/ \E id \in OptionIds(dom.options) : HandleOptionClick(id)
    \/ \E r \in inflight, result \in Payloads : ResponseResolves(r, result)
    \/ \E r \in inflight : FetchRejects(r)
    \/ \E r \in inflight : JsonRejects(r)
    \/ PerformUpdate
    \/ LabelTick
    \/ AdvanceClock

Spec == Init /\ [][Next]_vars

\* --------------------------------------------------------- example backend
\* Request bodies {id}: the widget sends the clicked option's data-option-id,
\* a string.  (A JSON number has the same Number() as its decimal string.)
BodyIds == {"1", "2", "3", "4", "x", ""}

\* Number(req.body.id): the set holding the number, empty for NaN
ToNumber(id) ==
    CASE id = "1" -> {1}
      [] id = "2" -> {2}
      [] id = "3" -> {3}
      [] id = "4" -> {4}
      [] id = ""  -> {0}
      [] OTHER    -> {}

\* votes.findIndex(v => v.id === Number(req.body.id)); 0 for JavaScript's -1
findIndex(id) ==
    IF \E i \in DOMAIN votes : votes[i].id \in ToNumber(id)
    THEN CHOOSE i \in DOMAIN votes :
             /\ votes[i].id \in ToNumber(id)
             /\ \A j \in 1..(i - 1) : votes[j].id \notin ToNumber(id)
    ELSE 0

\* res.json({question, options: votes})
PollBody(opts) ==
    [status |-> 200,
     body   |-> [question |-> DefaultQuestion, options |-> opts]]

\* the votes cast at the backend so far
Patched == SumVotes(votes) - SumVotes(InitialVotes)

\* app.get('/posts')
Get ==
    /\ reply' = PollBody(votes)
    /\ srvEvent' = [method |-> "GET", id |-> ""]
    /\ UNCHANGED << votes, clientVars >>

\* app.patch('/posts') answering with the list as it was before the increment
Patch_repliesStale(id) ==
    /\ Patched < MaxPatches
    /\ LET idx == findIndex(id)
       IN IF idx = 0
          THEN /\ reply' = [status |-> 500]
               /\ UNCHANGED votes
          ELSE /\ votes' = [votes EXCEPT ![idx].votes = @ + 1]
               /\ reply' = PollBody(votes)
    /\ srvEvent' = [method |-> "PATCH", id |-> id]
    /\ UNCHANGED clientVars

\* app.patch('/posts'): votes[idx].votes++ and the list as the answer; with no
\* option of that id, votes[-1] is undefined, the handler throws and Express
\* answers 500
Patch(id) ==
    /\ Patched < MaxPatches
    /\ LET idx == findIndex(id)
       IN IF idx = 0
          THEN /\ reply' = [status |-> 500]
               /\ UNCHANGED votes
          ELSE /\ votes' = [votes EXCEPT ![idx].votes = @ + 1]
               /\ reply' = PollBody(votes')
    /\ srvEvent' = [method |-> "PATCH", id |-> id]
    /\ UNCHANGED clientVars

ServerNext ==
    \/ Get
    \/ \E id \in BodyIds : Patch(id)

ServerSpec == Init /\ [][ServerNext]_vars

\* ------------------------------------------------- bar-width specification
\* The write endpoint may answer with any option list.  VotePayloads are the
\* bodies with 1..MaxOptions options of 0..MaxVotes votes each.
VoteLists == UNION { [1..m -> 0..MaxVotes] : m \in 1..MaxOptions }

OptionList(v) == [i \in DOMAIN v |-> [id |-> i, text |-> "T", votes |-> v[i]]]

VotePayloads == { [question |-> "Q", options |-> OptionList(v)] : v \in VoteLists }

\* The widget right after the reveal: connected, rendered, its first read
\* failed, an option clicked and the reveal rendered; the vote is in flight.
WidthInit ==
    /\ _showResults = TRUE
    /\ _updateTime = 0
    /\ question = DefaultQuestion
    /\ options = DefaultOptions
    /\ timeAgo \in BOOLEAN
    /\ _intervalTimer = 1
    /\ connected = TRUE
    /\ updatingEnabled = TRUE
    /\ isUpdatePending = FALSE
    /\ changedProperties = {}
    /\ hasUpdated = TRUE
    /\ partConnected = TRUE
    /\ dom = [cls |-> "results", question |-> DefaultQuestion,
              options |-> DefaultOptions, label |-> timeAgo]
    /\ animations = <<>>
    /\ dirTimer = timeAgo
    /\ dirTime = IF timeAgo THEN 0 ELSE Unset
    /\ labelValue = IF timeAgo THEN 0 ELSE Unset
    /\ timers = {1}
    /\ \E id \in OptionIds(DefaultOptions) :
           inflight = {[seq |-> 2, kind |-> "vote", id |-> id]}
    /\ nextSeq = 3
    /\ now = 0
    /\ event = [name |-> "performUpdate", kind |-> "none"]
    /\ votesCast = 1
    /\ lastResult = <<>>
    /\ resolvedLog = <<>>
    /\ votes = InitialVotes
    /\ reply = [status |-> 0]
    /\ srvEvent = [method |-> "none", id |-> ""]

WidthNext ==
    \/ \E r \in inflight, result \in VotePayloads : ResponseResolves(r, result)
    \/ PerformUpdate

WidthSpec == WidthInit /\ [][WidthNext]_vars

\* ================================================================== claims
Rejected == {"fetchRejected", "jsonRejected"}

\* what a response replaces
pollState == << question, options, _updateTime >>

\* everything but the record of the handler that ran last
allButEvent == << widgetVars, connected, litVars, dirVars, timers, inflight, nextSeq,
                  now, votesCast, histVars >>

\* C1: the visibility flag starts false, goes from false to true only in an
\* accepted click (handleOptionClick taken while it is false), and once true
\* no step sets it back to false.
C1_FlagOneWay ==
    /\ ~_showResults
    /\ [][ /\ (_showResults => _showResults')
           /\ (~_showResults /\ _showResults'
                  => event' = [name |-> "click", kind |-> "vote"]) ]_vars

\* a click ignored after the reveal and after a response was applied
C1_Witness ==
    /\ _showResults
    /\ connected
    /\ lastResult # <<>>
    /\ event = [name |-> "click", kind |-> "none"]

\* C2: castVote is started at most once per instance; a click handled while
\* the flag is already true sends no request and changes no state.
C2_VoteAtMostOnce ==
    [][ /\ votesCast' <= 1
        /\ (event'.name = "click" /\ _showResults => UNCHANGED allButEvent) ]_vars

\* a second click arrives while the first vote request is still in flight
C2_Witness ==
    /\ event = [name |-> "click", kind |-> "none"]
    /\ votesCast = 1
    /\ \E r \in inflight : r.kind = "vote"

\* C3: while the widget is disconnected no refresh interval is live and no
\* interval callback has run since disconnectedCallback.
C3_NoRefreshTimerWhenDisconnected ==
    ~connected => (timers = {} /\ _intervalTimer = Unset /\ event.name # "timerTick")

\* disconnected after the reveal with requests still in flight, and something
\* has happened since the disconnect
C3_Witness ==
    /\ ~connected
    /\ updatingEnabled
    /\ _showResults
    /\ inflight # {}
    /\ event.name \notin {"disconnectedCallback", "constructor"}

\* C4: once disconnectedCallback has run with the relative-time label
\* rendered, the label's one-second timer is not armed; and no label update
\* (setValue) runs while the widget is disconnected.
C4_LabelTimerStoppedOnUnmount ==
    /\ (event.name = "disconnectedCallback" /\ dom.label => ~dirTimer)
    /\ (~connected => event.name # "labelTick")

\* C5: whenever some response has been applied, the widget's question and
\* options are those of the response that resolved last, whatever the order in
\* which the requests were issued, and so is what is rendered once the update
\* has run.
C5_LastResolvedWins ==
    lastResult # <<>> =>
        /\ question = lastResult[1].question
        /\ options = lastResult[1].options
        /\ Idle => (dom.question = lastResult[1].question
                     /\ dom.options = lastResult[1].options)

\* a refresh issued before the vote resolved after it, with a different body
C5_Witness ==
    /\ Len(resolvedLog) = 2
    /\ resolvedLog[1].kind = "vote"
    /\ resolvedLog[2].kind = "refresh"
    /\ resolvedLog[2].seq < resolvedLog[1].seq
    /\ inflight = {}
    /\ _showResults
    /\ question = "Q0"

\* C6: a response that resolves while the widget is disconnected changes
\* neither question, options nor the last-update timestamp.
C6_LateResponseDiscarded ==
    [][ (~connected /\ event'.name = "responseResolved") => UNCHANGED pollState ]_vars

\* C7: a resolved response sets question and options to exactly the body's
\* and the timestamp to the current time; no other step changes any of them.
C7_ResponseReplacesState ==
    [][ /\ (event'.name = "responseResolved" =>
                /\ question' = lastResult'[1].question
                /\ options' = lastResult'[1].options
                /\ _updateTime' = now)
        /\ (pollState' # pollState => event'.name = "responseResolved") ]_vars

\* a vote response has replaced an earlier response's question, options and time
C7_Witness ==
    /\ event = [name |-> "responseResolved", kind |-> "vote"]
    /\ Len(resolvedLog) = 2
    /\ question = "Q0"
    /\ _updateTime = MaxTime

\* C8: a failed refresh leaves question, options, timestamp and flag as they
\* were and issues no request.
C8_RefreshFailureChangesNothing ==
    [][ (event'.name \in Rejected /\ event'.kind = "refresh") =>
            /\ UNCHANGED << pollState, _showResults >>
            /\ nextSeq' = nextSeq
            /\ inflight' \subseteq inflight ]_vars

\* a refresh has failed after an earlier response was applied and shown
C8_Witness ==
    /\ event.name \in Rejected
    /\ event.kind = "refresh"
    /\ lastResult # <<>>
    /\ _showResults

\* C9: neither the accepted click nor the failure of its vote request changes
\* question, options or timestamp; the flag is true after the failure; and
\* once the one vote is no longer in flight no step starts another.
C9_FailedVoteStaysRevealed ==
    [][ /\ (event'.name = "click" => UNCHANGED pollState)
        /\ (event'.name \in Rejected /\ event'.kind = "vote" =>
                _showResults' /\ UNCHANGED pollState)
        /\ (votesCast = 1 /\ (\A r \in inflight : r.kind # "vote") =>
                _showResults' /\ votesCast' = 1) ]_vars

\* the vote failed, no response was ever applied, and a later click was ignored
C9_Witness ==
    /\ event = [name |-> "click", kind |-> "none"]
    /\ votesCast = 1
    /\ \A r \in inflight : r.kind # "vote"
    /\ lastResult = <<>>
    /\ question = DefaultQuestion
    /\ options = DefaultOptions

\* the read request updatePollResults issues
ReadIssued ==
    /\ nextSeq' = nextSeq + 1
    /\ inflight' = inflight \cup {[seq |-> nextSeq, kind |-> "refresh", id |-> Unset]}

\* C10: every connectedCallback issues exactly one read request and leaves the
\* one interval armed; every interval callback issues exactly one read request;
\* and while connected the interval can fire whenever a task can start,
\* whatever the flag and whatever is in flight.
C10_RefreshCycle ==
    /\ [][ /\ (event'.name = "connectedCallback" =>
                  ReadIssued /\ timers' = {_intervalTimer'})
           /\ (event'.name = "timerTick" => ReadIssued) ]_vars
    /\ [](connected => timers = {_intervalTimer})
    /\ [](connected /\ Idle /\ nextSeq <= MaxRequests
             => ENABLED (\E t \in timers : TimerTick(t)))

\* an interval callback ran after the reveal while an earlier request was
\* still in flight
C10_Witness ==
    /\ event.name = "timerTick"
    /\ _showResults
    /\ Cardinality(inflight) >= 2

\* the largest vote count of an option list
RECURSIVE MaxVoteOf(_)
MaxVoteOf(opts) ==
    IF Len(opts) = 1 THEN opts[1].votes
    ELSE LET m == MaxVoteOf(Tail(opts))
         IN IF opts[1].votes >= m THEN opts[1].votes ELSE m

\* some option has a vote
HasVotes(opts) == \E i \in DOMAIN opts : opts[i].votes >= 1

\* C11: after an update that animated the bars of an option list with at
\* least one vote, the target width of option i is (votes_i / max votes) * 90:
\* a fraction between 0 and 90 that is exactly 90 for every option holding
\* the maximum.
C11_WidthProportionalToMax ==
    (event = [name |-> "performUpdate", kind |-> "animate"] /\ HasVotes(options)) =>
        /\ DOMAIN animations = DOMAIN options
        /\ \A i \in DOMAIN options :
             LET w == animations[i]
             IN /\ w.den > 0
                /\ w.num * MaxVoteOf(options) = options[i].votes * BarScale * w.den
                /\ 0 <= w.num
                /\ w.num <= BarScale * w.den
                /\ (options[i].votes = MaxVoteOf(options) => w.num = BarScale * w.den)

\* three options with 1, 3 and 0 votes have been animated
C11_Witness ==
    /\ event = [name |-> "performUpdate", kind |-> "animate"]
    /\ Len(options) = 3
    /\ options[1].votes = 1
    /\ options[2].votes = 3
    /\ options[3].votes = 0
    /\ animations[1] = [num |-> BarScale, den |-> 3]

\* C12: after an update that animated the bars of an option list in which
\* every option has 0 votes, every target width is the number 0: no width is
\* the result of dividing by zero.
C12_ZeroVotesClampToZero ==
    (event = [name |-> "performUpdate", kind |-> "animate"] /\ ~HasVotes(options)) =>
        \A i \in DOMAIN animations :
            animations[i].den # 0 /\ animations[i].num = 0

\* the width w is the number p/q (in percent)
WidthIs(w, p, q) == w.den > 0 /\ w.num * q = p * w.den

\* the write endpoint's answer of the scenario
ScenarioResult ==
    [question |-> "Q",
     options  |-> << [id |-> 1, text |-> "A", votes |-> 2],
                     [id |-> 2, text |-> "B", votes |-> 9] >>]

\* option 2 was clicked, the answer to its vote was ScenarioResult, it was the
\* response applied last, and the update it requested has run
Scenario ==
    /\ event.name = "performUpdate"
    /\ resolvedLog # <<>>
    /\ resolvedLog[Len(resolvedLog)].kind = "vote"
    /\ resolvedLog[Len(resolvedLog)].id = 2
    /\ lastResult = << ScenarioResult >>

\* C13 as stated: in the scenario the widget is revealed, option 2's bar
\* targets 90% and option 1's bar targets 22.5%.
C13_ScenarioAsStated ==
    Scenario =>
        /\ _showResults
        /\ dom.cls = "results"
        /\ WidthIs(animations[2], 90, 1)
        /\ WidthIs(animations[1], 45, 2)

\* C13 amended: in the scenario the widget is revealed, option 2's bar
\* targets 90% and option 1's bar targets 20% ((2 / 9) * 90).
C13_ScenarioAmended ==
    Scenario =>
        /\ _showResults
        /\ dom.cls = "results"
        /\ event.kind = "animate"
        /\ WidthIs(animations[2], 90, 1)
        /\ WidthIs(animations[1], 20, 1)

\* the scenario, the vote's answer being the first response ever applied
C13_Witness ==
    /\ Scenario
    /\ Len(resolvedLog) = 1
    /\ votesCast = 1

\* C14: a PATCH whose id is that of an option adds exactly 1 to that option's
\* votes, leaves every other option and all ids and texts as they were, and
\* answers with the updated list; a GET answers with the current list and
\* changes nothing; no request ever lowers a vote count.
C14_BackendCountsVotes ==
    [][ /\ \A i \in DOMAIN votes :
              (srvEvent'.method = "PATCH" /\ votes[i].id \in ToNumber(srvEvent'.id)) =>
                  /\ votes' = [votes EXCEPT ![i].votes = votes[i].votes + 1]
                  /\ reply' = PollBody(votes')
        /\ srvEvent'.method = "GET" =>
              /\ votes' = votes
              /\ reply' = PollBody(votes)
        /\ DOMAIN votes' = DOMAIN votes
        /\ \A i \in DOMAIN votes :
              /\ votes'[i].votes >= votes[i].votes
              /\ votes'[i].id = votes[i].id
              /\ votes'[i].text = votes[i].text ]_vars

\* a GET after two votes for option 2 and one for option 1
C14_Witness ==
    /\ srvEvent.method = "GET"
    /\ votes[1].votes = 501
    /\ votes[2].votes = 1002
    /\ votes[3].votes = 750
    /\ reply = PollBody(votes)

\* C15: while the widget is connected and the relative-time label is rendered
\* (no update waiting), the label's one-second timer is armed and recomputes
\* from the latest _updateTime; a reconnect needs no further state change.
C15_LabelTimerArmedWhileMounted ==
    (connected /\ Idle /\ dom.label) => (dirTimer /\ dirTime = _updateTime)

\* C16: an update animates the bars exactly when the options changed since
\* the last update and the flag is true: the update after a response animates
\* iff the widget is revealed (a refresh response as much as the vote's), and
\* the update after the click that reveals animates nothing.
C16_AnimateOnOptionsChangeWhileRevealed ==
    [][ event'.name = "performUpdate" =>
          /\ (event'.kind = "animate") <=> ("options" \in changedProperties /\ _showResults)
          /\ event.name = "responseResolved" => ((event'.kind = "animate") <=> _showResults)
          /\ event.name = "click" => event'.kind = "none"
          /\ event'.kind = "animate" => animations' = percentages(options')
          /\ event'.kind # "animate" => animations' = animations ]_vars

\* the bars were animated for the vote's response and again for a refresh
\* response that resolved later
C16_Witness ==
    /\ event = [name |-> "performUpdate", kind |-> "animate"]
    /\ Len(resolvedLog) = 2
    /\ resolvedLog[1].kind = "vote"
    /\ resolvedLog[2].kind = "refresh"
    /\ animations = percentages(options)

\* C17: once rendered and with no update waiting, the relative-time label is
\* present iff the flag is true and timeAgo is enabled, and the section has
\* the class 'hide-results' iff the flag is false; before the first accepted
\* vote the label is never rendered.
C17_LabelIffRevealedAndEnabled ==
    /\ (hasUpdated /\ Idle) =>
          /\ dom.label <=> (_showResults /\ timeAgo)
          /\ (dom.cls = "hide-results") <=> ~_showResults
          /\ dom.cls \in {"hide-results", "results"}
    /\ votesCast = 0 => ~dom.label

\* the label is rendered after the vote's response; and the widget is shown
C17_Witness ==
    /\ hasUpdated
    /\ Idle
    /\ dom.label
    /\ dom.cls = "results"
    /\ lastResult # <<>>

\* C18: at most one refresh interval exists, one exists exactly when the last
\* lifecycle callback was connectedCallback, and it is the one the widget
\* holds the handle of.
C18_OneIntervalIffConnected ==
    /\ Cardinality(timers) <= 1
    /\ (timers # {}) <=> connected
    /\ connected => timers = {_intervalTimer}
    /\ ~connected => _intervalTimer = Unset

\* connectedCallback has run on an instance that was already connected
C18_Witness ==
    /\ event = [name |-> "connectedCallback", kind |-> "kept"]
    /\ Cardinality(timers) = 1

\* C19: question and options are the constructor's defaults or the question
\* and options of one and the same response body.
C19_QuestionAndOptionsFromOneBody ==
    \/ (question = DefaultQuestion /\ options = DefaultOptions)
    \/ \E p \in Payloads : question = p.question /\ options = p.options

\* two responses with different questions were applied, the refresh issued
\* first resolving after the vote
C19_Witness ==
    /\ Len(resolvedLog) = 2
    /\ resolvedLog[2].seq < resolvedLog[1].seq
    /\ question = "Q0"
    /\ options = lastResult[1].options
    /\ Idle

====
